---- MODULE Spec2Model ----
(***************************************************************************)
(* Model of the batch-generation controller of POV Nexus (src/App.tsx,     *)
(* src/services/geminiService.ts, src/components/Dashboard.tsx).           *)
(*                                                                         *)
(* The controller is a React component.  Every action below is one event   *)
(* (a click handler, a promise settling, a timer firing) together with the *)
(* render it causes and the effects that render schedules: the generation  *)
(* effect of App.tsx:92-135 runs again whenever stats.isGenerating or      *)
(* stats.batchesCompleted differs from the previous render, after the      *)
(* cleanup of the previous run has cleared that run's isMounted flag.      *)
(* The handlers are reachable only through the buttons the render shows    *)
(* (Dashboard.tsx:113-137, App.tsx:318).                                   *)
(*                                                                         *)
(* The environment: the remote service answers a pending request with a    *)
(* list of the requested length, with a list of another length (empty,     *)
(* one short, one long), or with an error; Date.now() returns a value of   *)
(* Times; a toast's timeout may fire at any moment, except where time is   *)
(* measured (SpecNotices).                                                 *)
(*                                                                         *)
(* The specifications share the variables.  Spec follows the generation    *)
(* loop through the buttons the render shows, on a gallery whose cards are *)
(* left alone.  SpecContract adds a call of the start handler while the    *)
(* loop is active, which no button makes.  SpecLive is the run that is     *)
(* started and left alone, with every request answered and every timeout   *)
(* firing in the end.  SpecNotices is that run with time measured second   *)
(* by second (Toast.tsx:23-27, App.tsx:80-89).  SpecGallery follows the    *)
(* record-level operations (thumbnails, high-res images, favorites, the    *)
(* modal, the bulk loader and the auto-visuals mode of                     *)
(* src/unnamed/part_001) on the first page of a stopped run of GallerySize *)
(* remote records, with the generation buttons left alone.  SpecCards      *)
(* follows the cards operated one by one on the same gallery, and the      *)
(* Instant Load button.  SpecPages follows the favorites filter and the    *)
(* pager on a stopped run of two pages.  SpecBackend applies the two batch *)
(* sources of geminiService.ts to the responses and picks drawn by its     *)
(* initial states.                                                         *)
(* The gallery is followed with a credential                               *)
(* selected: without one the image handlers ask the host for a credential  *)
(* and return.  A record is the object the code builds: the optional       *)
(* fields of SceneConcept (types.ts:30-34) are absent until a handler      *)
(* spreads them in; its description stands for the text fields, which no   *)
(* handler rewrites, and tells a remote record from a curated one.         *)
(***************************************************************************)
EXTENDS Integers, Sequences, FiniteSets, Bags, TLC

(***************************************************************************)
(* Program constants.                                                      *)
(***************************************************************************)
BATCH_SIZE == 50
TOTAL_GOAL == 1000
ITEMS_PER_PAGE == 10
CHUNK_SIZE == 3
\* the timeout of a notice and the period of the elapsed-time interval, in ms
TOAST_MS == 3000
INTERVAL_MS == 1000

(***************************************************************************)
(* Bounds of the model.                                                    *)
(***************************************************************************)
\* requests that may be in flight at once (one live, the others stale)
MaxPending == 2
\* notices on screen at once
MaxToasts == 1
\* seconds the elapsed-time counter is followed for
MaxElapsed == 1
\* distinct readings of Date.now()
MaxTime == 1
\* responses of the remote service whose length differs from the request
MaxIrregular == 1
\* records of the gallery whose cards are operated
GallerySize == 4
\* cards the user operates one by one: the last MaxTouch of the gallery
MaxTouch == 1
\* image requests that may be in flight at once
MaxImages == 4
\* runs of the bulk loader followed
MaxLoaders == 2
\* distinct images the remote service returns
MaxImage == 1
\* cards of the second page that are marked and unmarked freely
MaxMarks == 2
\* items of the array a response of the remote service parses to
MaxItems == 2
\* records a followed call of the local source is asked for
MaxCount == 2
\* words of each list of moods, actions and styles that the local source picks from
MaxWords == 1
\* seconds the clock is followed for where time is measured
MaxSeconds == 4

Times == 1..MaxTime

NoTime == 0

Min(a, b) == IF a <= b THEN a ELSE b

Max(a, b) == IF a >= b THEN a ELSE b

VARIABLES
  scenes,       \* useState<SceneConcept[]>: the Collection
  stats,        \* useState<GenerationStats>
  stopRef,      \* useRef<boolean>: the cancellation signal
  timerRef,     \* TRUE while the one-second interval is installed
  toasts,       \* useState<ToastMessage[]>
  pending,      \* generateSceneBatch calls awaiting the remote service
  hasKey,       \* window.aistudio.hasSelectedApiKey()
  irregular,    \* responses so far whose length was not the requested one
  keyPrompt,    \* openSelectKey() was called and the host still holds no key
  selectedScene,  \* useState<SceneConcept | null>: the record the modal shows
  images,       \* image requests awaiting the remote service (a bag)
  loaders,      \* runs of handleGeneratePageThumbnails: what each has left to load
  isAutoVisuals,  \* useState<boolean>: the auto-visuals mode
  showFavorites,  \* useState<boolean>: the favorites-only view
  currentPage,  \* useState<number>: the page on display
  backend       \* a call of a content source: its arguments, locals and outcome

galleryVars ==
  <<selectedScene, images, loaders, isAutoVisuals, showFavorites, currentPage>>

vars == <<scenes, stats, stopRef, timerRef, toasts, pending, hasKey, irregular,
          keyPrompt, selectedScene, images, loaders, isAutoVisuals,
          showFavorites, currentPage, backend>>

(***************************************************************************)
(* Notices.                                                                *)
(***************************************************************************)
MsgStarted == "AI Generation Started"
MsgStopped == "Generation Stopped"
MsgInstant == "Instant Gallery Loaded"
MsgGoal    == "Generation Goal Reached!"
MsgFailed  == "Generation failed. Check console."

\* a notice on screen carries the state of its Toast component: timer is
\* what is left of its timeout, shownFor the time since it was added
addToast(ts, now, message, type) ==
  Append(ts, [id |-> now, message |-> message, type |-> type,
              timer |-> TOAST_MS, shownFor |-> 0])

removeToast(ts, id) == SelectSeq(ts, LAMBDA t : t.id # id)

\* a render of the application: the effect of every Toast is cleaned up and
\* run again (its dependency onRemove is a new function at each render),
\* which clears the timeout and sets a new one
Restart(ts) == [k \in DOMAIN ts |-> [ts[k] EXCEPT !.timer = TOAST_MS]]

(***************************************************************************)
(* Content sources.  A remote record has no thumbnail; a curated record    *)
(* carries the placeholder derived from its id.                            *)
(***************************************************************************)
NoUrl == <<>>

\* selectedScene when the modal is closed (null)
NoScene == [id |-> 0]

\* mutant of generateSceneBatch: every batch is numbered from 1
generateSceneBatchFromOne(startId, n) ==
  [index \in 1..n |->
     [id |-> index, description |-> "remote", thumbnailUrl |-> NoUrl]]

\* the records generateSceneBatch builds from a parsed response of n items
generateSceneBatch(startId, n) ==
  [index \in 1..n |->
     [id |-> startId + (index - 1), description |-> "remote",
      thumbnailUrl |-> NoUrl]]

\* https://picsum.photos/seed/${seed}/400/225
placeholderUrl(seed) == <<"picsum", seed>>

\* the records of generateCuratedBatch as the controller reads them: the
\* description stands for whichever text the random picks give
generateCuratedBatch(startId, count) ==
  [i \in 1..count |->
     [id |-> startId + (i - 1), description |-> "curated",
      thumbnailUrl |-> placeholderUrl(startId + (i - 1))]]

\* ceil(a / b) for b > 0
CeilDiv(a, b) == (a + b - 1) \div b

(***************************************************************************)
(* The generation effect.                                                  *)
(***************************************************************************)
\* cleanup of the previous effect run: its closure's isMounted becomes false
Unmount(pend) == [i \in DOMAIN pend |-> [pend[i] EXCEPT !.isMounted = FALSE]]

\* the request generateStep issues from a Collection of the given size
NewRequest(sc, st) ==
  [startId          |-> Len(sc) + 1,
   count            |-> Min(BATCH_SIZE, TOTAL_GOAL - Len(sc)),
   batchesCompleted |-> st.batchesCompleted,
   isMounted        |-> TRUE]

\* mutant of generateStep: the early return tests only the goal
generateStepGoalOnly(sc, st, stop, pend, ts, now) ==
  IF Len(sc) >= TOTAL_GOAL
  THEN IF st.isGenerating
       THEN [stats   |-> [st EXCEPT !.isGenerating = FALSE],
             pending |-> pend,
             toasts  |-> addToast(ts, now, MsgGoal, "success")]
       ELSE [stats |-> st, pending |-> pend, toasts |-> ts]
  ELSE [stats |-> st, pending |-> Append(pend, NewRequest(sc, st)), toasts |-> ts]

\* mutant of generateStep: the goal is tested with > instead of >=
generateStepPastGoal(sc, st, stop, pend, ts, now) ==
  IF ~st.isGenerating \/ stop \/ Len(sc) > TOTAL_GOAL
  THEN IF Len(sc) > TOTAL_GOAL /\ st.isGenerating
       THEN [stats   |-> [st EXCEPT !.isGenerating = FALSE],
             pending |-> pend,
             toasts  |-> addToast(ts, now, MsgGoal, "success")]
       ELSE [stats |-> st, pending |-> pend, toasts |-> ts]
  ELSE [stats |-> st, pending |-> Append(pend, NewRequest(sc, st)), toasts |-> ts]

\* generateStep up to its await, run with the values of the current render
generateStep(sc, st, stop, pend, ts, now) ==
  IF ~st.isGenerating \/ stop \/ Len(sc) >= TOTAL_GOAL
  THEN IF Len(sc) >= TOTAL_GOAL /\ st.isGenerating
       THEN [stats   |-> [st EXCEPT !.isGenerating = FALSE],
             pending |-> pend,
             toasts  |-> addToast(ts, now, MsgGoal, "success")]
       ELSE [stats |-> st, pending |-> pend, toasts |-> ts]
  ELSE [stats |-> st, pending |-> Append(pend, NewRequest(sc, st)), toasts |-> ts]

\* The render after a state update: the generation effect runs when one of
\* its dependencies changed.  When generateStep itself clears isGenerating
\* (goal reached) the effect runs once more and returns at its first test.
Commit(prev, sc, st, stop, pend, ts, now) ==
  LET r == IF st.isGenerating # prev.isGenerating
                \/ st.batchesCompleted # prev.batchesCompleted
           THEN generateStep(sc, st, stop, Unmount(pend), ts, now)
           ELSE [stats |-> st, pending |-> pend, toasts |-> ts]
  IN [r EXCEPT !.toasts = Restart(@)]

\* mutant of TimerInstalled: the interval is never cleared
TimerNeverCleared(st) == TRUE

\* the timer effect: the interval is installed exactly while the loop is
\* flagged active
TimerInstalled(st) == st.isGenerating

\* the bounds of the model, applied to the outcome of an event
WithinBounds(r) ==
  /\ Len(r.toasts) <= MaxToasts
  /\ Len(r.pending) <= MaxPending

\* no call of a content source is followed
NoCall == [fn |-> "none"]

\* the application as constructed
Idle ==
  /\ scenes = <<>>
  /\ stats = [totalGenerated |-> 0, batchesCompleted |-> 0,
              isGenerating |-> FALSE, startTime |-> NoTime, elapsedTime |-> 0]
  /\ stopRef = FALSE
  /\ timerRef = FALSE
  /\ toasts = <<>>
  /\ pending = <<>>
  /\ hasKey \in BOOLEAN
  /\ irregular = 0
  /\ keyPrompt = FALSE
  /\ selectedScene = NoScene
  /\ images = EmptyBag
  /\ loaders = <<>>
  /\ isAutoVisuals = FALSE
  /\ showFavorites = FALSE
  /\ currentPage = 1

Init == backend = NoCall /\ Idle

(***************************************************************************)
(* Which buttons the render shows.                                         *)
(***************************************************************************)
StartShown ==
  \/ ~stats.isGenerating /\ stats.totalGenerated < TOTAL_GOAL
  \/ Len(scenes) = 0 /\ ~stats.isGenerating

StopShown == stats.isGenerating

(***************************************************************************)
(* Handlers.                                                               *)
(***************************************************************************)
\* mutant of StartStats: a resume resets the statistics as a fresh run does
StartStatsAlwaysReset(sc, st, now) ==
  [st EXCEPT !.isGenerating = TRUE, !.startTime = now,
             !.totalGenerated = 0, !.batchesCompleted = 0,
             !.elapsedTime = 0]

\* the state update handleStart makes when a credential is available
StartStats(sc, st, now) ==
  IF Len(sc) = 0
  THEN [st EXCEPT !.isGenerating = TRUE, !.startTime = now,
                  !.totalGenerated = 0, !.batchesCompleted = 0,
                  !.elapsedTime = 0]
  ELSE [st EXCEPT !.isGenerating = TRUE]

\* handleStart past its credential test
startProceeds ==
  \E now \in Times :
    LET st == StartStats(scenes, stats, now)
        r  == Commit(stats, scenes, st, FALSE, pending,
                     addToast(toasts, now, MsgStarted, "info"), now)
    IN /\ WithinBounds(r)
       /\ stopRef' = FALSE
       /\ stats' = r.stats
       /\ pending' = r.pending
       /\ toasts' = r.toasts
       /\ timerRef' = TimerInstalled(r.stats)
       /\ UNCHANGED <<scenes, hasKey, irregular, keyPrompt, galleryVars, backend>>

\* mutant of start: the credential is not tested
startWithoutKeyTest == startProceeds

\* the body of handleStart
start ==
  IF ~hasKey
  THEN \* openSelectKey(): the host may or may not end up with a key
       /\ hasKey' \in BOOLEAN
       /\ keyPrompt' = ~hasKey'
       /\ UNCHANGED <<scenes, stats, stopRef, timerRef, toasts, pending, irregular,
                      galleryVars, backend>>
  ELSE startProceeds

\* a click on one of the start buttons
handleStart == StartShown /\ start

\* mutant of StopStats: stop() also zeroes the elapsed time
StopStatsResetClock(st) == [st EXCEPT !.isGenerating = FALSE, !.elapsedTime = 0]

\* the state update handleStop makes
StopStats(st) == [st EXCEPT !.isGenerating = FALSE]

handleStop ==
  /\ StopShown
  /\ \E now \in Times :
       LET st == StopStats(stats)
           r  == Commit(stats, scenes, st, TRUE, pending,
                        addToast(toasts, now, MsgStopped, "info"), now)
       IN /\ WithinBounds(r)
          /\ stopRef' = TRUE
          /\ stats' = r.stats
          /\ pending' = r.pending
          /\ toasts' = r.toasts
          /\ timerRef' = TimerInstalled(r.stats)
          /\ UNCHANGED <<scenes, hasKey, irregular, keyPrompt, galleryVars, backend>>

handleInstantLoad ==
  /\ StartShown
  /\ \E now \in Times :
       LET curatedScenes == generateCuratedBatch(1, TOTAL_GOAL)
           st == [totalGenerated   |-> Len(curatedScenes),
                  batchesCompleted |-> CeilDiv(Len(curatedScenes), BATCH_SIZE),
                  isGenerating     |-> FALSE,
                  startTime        |-> now,
                  elapsedTime      |-> 1]
           r  == Commit(stats, curatedScenes, st, TRUE, pending,
                        addToast(toasts, now, MsgInstant, "success"), now)
       IN /\ WithinBounds(r)
          /\ stopRef' = TRUE
          /\ scenes' = curatedScenes
          /\ stats' = r.stats
          /\ pending' = r.pending
          /\ toasts' = r.toasts
          /\ timerRef' = TimerInstalled(r.stats)
          /\ UNCHANGED <<hasKey, irregular, keyPrompt, galleryVars, backend>>

(***************************************************************************)
(* The remote service answers a pending request.                           *)
(***************************************************************************)
RemoveAt(s, i) == [j \in 1..(Len(s) - 1) |-> IF j < i THEN s[j] ELSE s[j + 1]]

\* lengths a response may have other than the requested one
IrregularSizes(count) == {0, count - 1, count + 1} \ {count, -1}

\* mutant of Applies: the result is applied without looking at the signals
AppliesAlways(req, stop) == TRUE

\* the test guarding the state updates after the await
Applies(req, stop) == req.isMounted /\ ~stop

\* mutant of BatchStats: a batch without records halts the run
BatchStatsHaltOnEmpty(st, newBatch) ==
  IF Len(newBatch) = 0
  THEN [st EXCEPT !.isGenerating = FALSE]
  ELSE [st EXCEPT !.totalGenerated = @ + Len(newBatch), !.batchesCompleted = @ + 1]

\* mutant of BatchStats: the batch is not counted in batchesCompleted
BatchStatsNoCount(st, newBatch) ==
  [st EXCEPT !.totalGenerated = @ + Len(newBatch)]

\* mutant of BatchStats: counts one per batch instead of one per record
BatchStatsPerBatch(st, newBatch) ==
  [st EXCEPT !.totalGenerated = @ + 1, !.batchesCompleted = @ + 1]

\* the state update after a successful batch
BatchStats(st, newBatch) ==
  [st EXCEPT !.totalGenerated = @ + Len(newBatch), !.batchesCompleted = @ + 1]

\* the request at position i resolves with a response of n items
ResolveBatch(i, n) ==
  /\ i \in DOMAIN pending
  /\ \/ n = pending[i].count /\ irregular' = irregular
     \/ /\ n \in IrregularSizes(pending[i].count)
        /\ irregular < MaxIrregular
        /\ irregular' = irregular + 1
  /\ \E now \in Times :
       LET req      == pending[i]
           rest     == RemoveAt(pending, i)
           newBatch == generateSceneBatch(req.startId, n)
       IN IF Applies(req, stopRef)
          THEN LET sc == scenes \o newBatch
                   st == BatchStats(stats, newBatch)
                   r  == Commit(stats, sc, st, stopRef, rest, toasts, now)
               IN /\ WithinBounds(r)
                  /\ scenes' = sc
                  /\ stats' = r.stats
                  /\ pending' = r.pending
                  /\ toasts' = r.toasts
                  /\ timerRef' = TimerInstalled(r.stats)
                  /\ UNCHANGED <<stopRef, hasKey, keyPrompt, galleryVars, backend>>
          ELSE /\ pending' = rest
               /\ UNCHANGED <<scenes, stats, stopRef, timerRef, toasts, hasKey, keyPrompt, galleryVars, backend>>

\* mutant of FailStats: the catch block leaves the loop flagged active
FailStatsKeepRunning(st) == st

\* the state update of the catch block
FailStats(st) == [st EXCEPT !.isGenerating = FALSE]

\* the request at position i throws
FailBatch(i) ==
  /\ i \in DOMAIN pending
  /\ \E now \in Times :
       LET req  == pending[i]
           rest == RemoveAt(pending, i)
       IN IF req.isMounted
          THEN LET st == FailStats(stats)
                   r  == Commit(stats, scenes, st, TRUE, rest,
                                addToast(toasts, now, MsgFailed, "error"), now)
               IN /\ WithinBounds(r)
                  /\ stopRef' = TRUE
                  /\ stats' = r.stats
                  /\ pending' = r.pending
                  /\ toasts' = r.toasts
                  /\ timerRef' = TimerInstalled(r.stats)
                  /\ UNCHANGED <<scenes, hasKey, irregular, keyPrompt, galleryVars, backend>>
          ELSE /\ pending' = rest
               /\ UNCHANGED <<scenes, stats, stopRef, timerRef, toasts, hasKey, irregular, keyPrompt, galleryVars, backend>>

(***************************************************************************)
(* Timers.                                                                 *)
(***************************************************************************)
\* the callback of the interval, run with the notices ts on screen
tick(ts) ==
  LET st == [stats EXCEPT !.elapsedTime = @ + 1]
      r  == Commit(stats, scenes, st, stopRef, pending, ts, NoTime)
  IN /\ stats' = r.stats
     /\ pending' = r.pending
     /\ toasts' = r.toasts
     /\ UNCHANGED <<scenes, stopRef, timerRef, hasKey, irregular, keyPrompt, galleryVars, backend>>

\* the one-second interval fires
Tick ==
  /\ timerRef
  /\ stats.elapsedTime < MaxElapsed
  /\ tick(toasts)

\* the timeout of the toast at position k fires
DismissToast(k) ==
  /\ k \in DOMAIN toasts
  /\ toasts' = Restart(removeToast(toasts, toasts[k].id))
  /\ UNCHANGED <<scenes, stats, stopRef, timerRef, pending, hasKey, irregular, keyPrompt, galleryVars, backend>>

Next ==
  \/ handleStart
  \/ handleStop
  \/ handleInstantLoad
  \/ \E i \in 1..MaxPending : \E n \in 0..(BATCH_SIZE + 1) : ResolveBatch(i, n)
  \/ \E i \in 1..MaxPending : FailBatch(i)
  \/ Tick
  \/ \E k \in 1..MaxToasts : DismissToast(k)

Spec == Init /\ [][Next]_vars

(***************************************************************************)
(* The contract of start(): the handler called while the loop is active.   *)
(* It tests nothing but the credential (App.tsx:139-154); only the render  *)
(* keeps it from being called then.                                        *)
(***************************************************************************)
startWhileActive == stats.isGenerating /\ start

NextContract == Next \/ startWhileActive

SpecContract == Init /\ [][NextContract]_vars

(***************************************************************************)
(* The undisturbed run: the user starts and never stops, no request        *)
(* throws, every response holds at least one record, and every request in  *)
(* flight is answered.  A notice's timeout fires in the end; the bound on  *)
(* the notices on screen makes a step that adds a notice wait for it.      *)
(***************************************************************************)
Answer == \E i \in 1..MaxPending : \E n \in 1..(BATCH_SIZE + 1) : ResolveBatch(i, n)

Timeout == \E k \in 1..MaxToasts : DismissToast(k)

NextLive ==
  \/ handleStart
  \/ Answer
  \/ Tick
  \/ Timeout

SpecLive == Init /\ [][NextLive]_vars /\ WF_vars(Answer) /\ WF_vars(Timeout)

(***************************************************************************)
(* The run with time measured, second by second.  While the interval is    *)
(* installed each second brings its callback, hence a render; otherwise    *)
(* the second passes on the timeouts of the notices, and a timeout that    *)
(* has run out removes its notice.                                         *)
(***************************************************************************)
\* the notices a second later, no render having come
Older(ts) ==
  [k \in DOMAIN ts |->
     [ts[k] EXCEPT !.timer = @ - INTERVAL_MS, !.shownFor = @ + INTERVAL_MS]]

\* the notices whose timeout has run out
Due(ts) == {k \in DOMAIN ts : ts[k].timer <= 0}

Second ==
  /\ \A k \in DOMAIN toasts : toasts[k].shownFor < MaxSeconds * INTERVAL_MS
  /\ IF timerRef
     THEN /\ stats.elapsedTime < MaxSeconds
          /\ tick(Older(toasts))
     ELSE /\ toasts # <<>>
          /\ IF Due(Older(toasts)) = {}
             THEN toasts' = Older(toasts)
             ELSE \E k \in Due(Older(toasts)) :
                    toasts' = Restart(removeToast(Older(toasts), Older(toasts)[k].id))
          /\ UNCHANGED <<scenes, stats, stopRef, timerRef, pending, hasKey, irregular,
                         keyPrompt, galleryVars, backend>>

NextNotices ==
  \/ handleStart
  \/ \E i \in 1..MaxPending : \E n \in 0..(BATCH_SIZE + 1) : ResolveBatch(i, n)
  \/ Second

SpecNotices == Init /\ [][NextNotices]_vars

(***************************************************************************)
(* Records of the Collection.                                              *)
(***************************************************************************)
\* { ...s, f: v }
With(s, f, v) == [x \in (DOMAIN s) \cup {f} |-> IF x = f THEN v ELSE s[x]]

\* an optional boolean field, read for its truth
Flag(s, f) == f \in DOMAIN s /\ s[f]

\* an optional URL field
Url(s, f) == IF f \in DOMAIN s THEN s[f] ELSE NoUrl

\* { ...s, ...t }
Spread(s, t) ==
  [x \in (DOMAIN s) \cup (DOMAIN t) |-> IF x \in DOMAIN t THEN t[x] ELSE s[x]]

\* prev.map(s => s.id === id ? { ...s, ...t } : s)
MapScene(sc, id, t) ==
  [i \in DOMAIN sc |-> IF sc[i].id = id THEN Spread(sc[i], t) ELSE sc[i]]

\* prev.map(s => s.id === id ? updatedScene : s)
ReplaceScene(sc, id, updatedScene) ==
  [i \in DOMAIN sc |-> IF sc[i].id = id THEN updatedScene ELSE sc[i]]

Ids(sc) == [i \in DOMAIN sc |-> sc[i].id]

\* the images the remote service may return
Images == 1..MaxImage

\* the service returned no image, or threw
NoImage == 0

\* the data URL the service builds from the v-th image
DataUrl(kind, v) == <<"data", kind, v>>

\* thumbnailUrl.includes('picsum')
IsPlaceholder(u) == u # NoUrl /\ u[1] = "picsum"

\* the filter of the bulk loader and of the auto-visuals effect
NeedsThumbnail(s) ==
  /\ Url(s, "thumbnailUrl") = NoUrl \/ IsPlaceholder(s.thumbnailUrl)
  /\ ~Flag(s, "isGeneratingThumbnail")

\* s.isFavorite, read for its truth by filter
isFavorite(s) == Flag(s, "isFavorite")

\* mutant of filteredScenes: the favorites-only view drops the favorites
filteredScenesInverted(sc, fav) ==
  IF fav THEN SelectSeq(sc, LAMBDA s : ~isFavorite(s)) ELSE sc

\* the view the filter leaves of the Collection
filteredScenes(sc, fav) == IF fav THEN SelectSeq(sc, isFavorite) ELSE sc

\* mutant of totalPages: the division is rounded down
totalPagesFloor(filtered) == Len(filtered) \div ITEMS_PER_PAGE

\* Math.ceil(filteredScenes.length / ITEMS_PER_PAGE)
totalPages(filtered) == CeilDiv(Len(filtered), ITEMS_PER_PAGE)

\* Array.prototype.slice(begin, end) for 0 <= begin <= end: the elements at
\* the zero-based positions begin .. min(end, length) - 1
slice(s, begin, end) ==
  [k \in 1..Max(0, Min(end, Len(s)) - begin) |-> s[begin + k]]

\* the slice of the filtered view that page p shows
Page(filtered, p) ==
  slice(filtered, (p - 1) * ITEMS_PER_PAGE, p * ITEMS_PER_PAGE)

\* the records on display in the render of g
displayedScenes(g) == Page(filteredScenes(g.scenes, g.showFavorites), g.currentPage)

(***************************************************************************)
(* The image handlers, as updates of the part of the state they touch:     *)
(* g is [scenes, images, loaders, selectedScene, toasts, showFavorites,    *)
(* currentPage].                                                           *)
(***************************************************************************)
MsgAllLoaded  == "All visuals on page already loaded."
MsgLoading    == "Loading visuals..."
MsgPageLoaded == "Page Visuals Loaded"
MsgHighRes    == "High-Res Image Complete (Flash)"
MsgImageFailed == "Generation Failed"

ThumbnailRequest(id, loader) ==
  [kind |-> "thumbnail", id |-> id, loader |-> loader, selectedScene |-> NoScene]

\* the closure of handleGenerateHighRes holds the selectedScene of its render
HighResRequest(scene) ==
  [kind |-> "highRes", id |-> scene.id, loader |-> 0, selectedScene |-> scene]

\* handleGenerateImage up to its await, called by the run `loader` of the
\* bulk loader (0: by a card)
handleGenerateImage(g, id, loader) ==
  [g EXCEPT !.scenes = MapScene(@, id, [isGeneratingThumbnail |-> TRUE]),
            !.images = @ (+) SetToBag({ThumbnailRequest(id, loader)})]

\* chunk.map(scene => handleGenerateImage(scene.id, scene.description))
RECURSIVE issueChunk(_, _, _)
issueChunk(g, ids, loader) ==
  IF ids = <<>>
  THEN g
  ELSE issueChunk(handleGenerateImage(g, Head(ids), loader), Tail(ids), loader)

\* the chunk the loop of the bulk loader takes next from what is left of
\* scenesToLoad, and what is left after it
Chunk(list) == SubSeq(list, 1, Min(CHUNK_SIZE, Len(list)))

Rest(list) == SubSeq(list, CHUNK_SIZE + 1, Len(list))

\* a run of the bulk loader that has nothing left to do
Done == [rest |-> <<>>, silent |-> TRUE]

\* handleGeneratePageThumbnails up to its first await
handleGeneratePageThumbnails(g, silent, now) ==
  LET scenesToLoad == Ids(SelectSeq(displayedScenes(g), NeedsThumbnail))
  IN IF scenesToLoad = <<>>
     THEN IF silent
          THEN g
          ELSE [g EXCEPT !.toasts = addToast(@, now, MsgAllLoaded, "info")]
     ELSE LET g1 == IF silent
                    THEN g
                    ELSE [g EXCEPT !.toasts = addToast(@, now, MsgLoading, "info")]
              g2 == [g1 EXCEPT !.loaders =
                       Append(@, [rest |-> Rest(scenesToLoad), silent |-> silent])]
          IN issueChunk(g2, Chunk(scenesToLoad), Len(g2.loaders))

\* the run j of the bulk loader after the await of its chunk: the next
\* chunk of the list it computed when it was called, or the end of the loop
continueLoader(g, j, now) ==
  LET run == g.loaders[j]
  IN IF run.rest = <<>>
     THEN LET g1 == [g EXCEPT !.loaders[j] = Done]
          IN IF run.silent
             THEN g1
             ELSE [g1 EXCEPT !.toasts = addToast(@, now, MsgPageLoaded, "success")]
     ELSE issueChunk([g EXCEPT !.loaders[j].rest = Rest(run.rest)], Chunk(run.rest), j)

\* the auto-visuals effect: it runs after every render, and each run of the
\* loader it starts changes scenes, hence renders again
RECURSIVE autoEffect(_, _, _)
autoEffect(g, auto, now) ==
  IF auto /\ \E i \in DOMAIN displayedScenes(g) :
               NeedsThumbnail(displayedScenes(g)[i])
  THEN autoEffect(handleGeneratePageThumbnails(g, TRUE, now), auto, now)
  ELSE g

\* handleGenerateImage after its await: v is the image returned, or NoImage
thumbnailResult(g, req, v) ==
  IF v # NoImage
  THEN [g EXCEPT !.scenes =
          MapScene(@, req.id,
                   [isGeneratingThumbnail |-> FALSE,
                    thumbnailUrl |-> DataUrl("thumbnail", v)])]
  ELSE [g EXCEPT !.scenes =
          MapScene(@, req.id, [isGeneratingThumbnail |-> FALSE])]

\* handleGenerateHighRes after its await
highResResult(g, req, v, now) ==
  IF v # NoImage
  THEN LET updatedScene ==
             With(With(req.selectedScene, "highResUrl", DataUrl("highRes", v)),
                  "isGeneratingHighRes", FALSE)
       IN [g EXCEPT
             !.selectedScene = updatedScene,
             !.scenes = ReplaceScene(@, req.selectedScene.id, updatedScene),
             !.toasts = addToast(@, now, MsgHighRes, "success")]
  ELSE [g EXCEPT
          !.scenes = MapScene(@, req.selectedScene.id, [isGeneratingHighRes |-> FALSE]),
          !.selectedScene = IF @ = NoScene THEN NoScene
                            ELSE With(@, "isGeneratingHighRes", FALSE),
          !.toasts = addToast(@, now, MsgImageFailed, "error")]

(***************************************************************************)
(* The gallery: events on the cards, the modal and the page controls.      *)
(***************************************************************************)
Gallery ==
  [scenes |-> scenes, images |-> images, loaders |-> loaders,
   selectedScene |-> selectedScene, toasts |-> toasts,
   showFavorites |-> showFavorites, currentPage |-> currentPage]

genVars == <<stats, stopRef, timerRef, pending, hasKey, irregular, keyPrompt>>

\* the cards the user operates one by one
Cards == (GallerySize - MaxTouch + 1)..GallerySize

Shown(id) ==
  \E i \in DOMAIN displayedScenes(Gallery) : displayedScenes(Gallery)[i].id = id

\* the record the card of the given id renders
Scene(id) ==
  displayedScenes(Gallery)[CHOOSE i \in DOMAIN displayedScenes(Gallery) :
                             displayedScenes(Gallery)[i].id = id]

\* the modal covers the page while a record is selected
ModalClosed == selectedScene = NoScene

\* the state after an event: the handler's updates, then the render and
\* the auto-visuals effect it schedules
Rendered(g, auto, now) ==
  LET r == autoEffect(g, auto /\ hasKey, now)
  IN /\ Len(r.toasts) <= MaxToasts
     /\ BagCardinality(r.images) <= MaxImages
     /\ Len(r.loaders) <= MaxLoaders
     /\ scenes' = r.scenes
     /\ images' = r.images
     /\ loaders' = r.loaders
     /\ selectedScene' = r.selectedScene
     /\ toasts' = Restart(r.toasts)
     /\ isAutoVisuals' = auto
     /\ showFavorites' = r.showFavorites
     /\ currentPage' = r.currentPage
     /\ UNCHANGED <<genVars, backend>>

\* the VISUALIZE button of a card
Visualize(id) ==
  /\ ModalClosed
  /\ hasKey
  /\ Shown(id)
  /\ Url(Scene(id), "thumbnailUrl") = NoUrl
  /\ ~Flag(Scene(id), "isGeneratingThumbnail")
  /\ Rendered(handleGenerateImage(Gallery, id, 0), isAutoVisuals, NoTime)

\* the LOAD VISUALS button of the page
LoadVisuals ==
  /\ ModalClosed
  /\ hasKey
  /\ Len(scenes) > 0
  /\ ~showFavorites
  /\ ~isAutoVisuals
  /\ \E now \in Times :
       Rendered(handleGeneratePageThumbnails(Gallery, FALSE, now), isAutoVisuals, now)

onToggleAutoVisuals ==
  /\ ModalClosed
  /\ Rendered(Gallery, ~isAutoVisuals, NoTime)

\* mutant of toggleFavorite: the mark of every record is flipped
toggleFavoriteAll(sc, id) ==
  [i \in DOMAIN sc |-> With(sc[i], "isFavorite", ~Flag(sc[i], "isFavorite"))]

\* the state update of handleToggleFavorite
toggleFavorite(sc, id) ==
  [i \in DOMAIN sc |->
     IF sc[i].id = id THEN With(sc[i], "isFavorite", ~Flag(sc[i], "isFavorite"))
     ELSE sc[i]]

handleToggleFavorite(id) ==
  /\ ModalClosed
  /\ Shown(id)
  /\ Rendered([Gallery EXCEPT !.scenes = toggleFavorite(@, id)], isAutoVisuals, NoTime)

\* a card opens the modal only when it shows an image
openModal(id) ==
  /\ ModalClosed
  /\ Shown(id)
  /\ Url(Scene(id), "thumbnailUrl") # NoUrl
  /\ Rendered([Gallery EXCEPT !.selectedScene = Scene(id)], isAutoVisuals, NoTime)

closeModal ==
  /\ ~ModalClosed
  /\ Rendered([Gallery EXCEPT !.selectedScene = NoScene], isAutoVisuals, NoTime)

\* the high-res button of the modal, up to the await of the handler
handleGenerateHighRes ==
  /\ ~ModalClosed
  /\ hasKey
  /\ Url(selectedScene, "highResUrl") = NoUrl
  /\ ~Flag(selectedScene, "isGeneratingHighRes")
  /\ Rendered([Gallery EXCEPT
                 !.scenes = MapScene(@, selectedScene.id, [isGeneratingHighRes |-> TRUE]),
                 !.selectedScene = With(@, "isGeneratingHighRes", TRUE),
                 !.images = @ (+) SetToBag({HighResRequest(selectedScene)})],
              isAutoVisuals, NoTime)

\* the image request req resolves with image v, or with NoImage (no image
\* in the response, or an error: both reach the catch block)
ResolveImage(req, v) ==
  /\ BagIn(req, images)
  /\ \E now \in Times :
       LET g0 == [Gallery EXCEPT !.images = @ (-) SetToBag({req})]
       IN IF req.kind = "thumbnail"
          THEN LET g1 == thumbnailResult(g0, req, v)
                   g2 == IF req.loader # 0
                            /\ \A other \in BagToSet(g1.images) : other.loader # req.loader
                         THEN continueLoader(g1, req.loader, now)
                         ELSE g1
               IN Rendered(g2, isAutoVisuals, now)
          ELSE Rendered(highResResult(g0, req, v, now), isAutoVisuals, now)

\* a stopped run whose only batch came back with n records
StoppedRun(n) ==
  /\ backend = NoCall
  /\ scenes = generateSceneBatch(1, n)
  /\ \E now \in Times :
       stats = [totalGenerated |-> n, batchesCompleted |-> 1,
                isGenerating |-> FALSE, startTime |-> now, elapsedTime |-> 0]
  /\ stopRef = TRUE
  /\ timerRef = FALSE
  /\ toasts = <<>>
  /\ pending = <<>>
  /\ hasKey = TRUE
  /\ irregular = 1
  /\ keyPrompt = FALSE
  /\ selectedScene = NoScene
  /\ images = EmptyBag
  /\ loaders = <<>>
  /\ isAutoVisuals = FALSE
  /\ showFavorites = FALSE
  /\ currentPage = 1

InitGallery == StoppedRun(GallerySize)

NextGallery ==
  \/ \E id \in Cards : Visualize(id)
  \/ LoadVisuals
  \/ onToggleAutoVisuals
  \/ \E id \in Cards : handleToggleFavorite(id)
  \/ \E id \in Cards : openModal(id)
  \/ closeModal
  \/ handleGenerateHighRes
  \/ \E req \in BagToSet(images) : \E v \in Images \cup {NoImage} : ResolveImage(req, v)
  \/ \E k \in 1..MaxToasts : DismissToast(k)

SpecGallery == InitGallery /\ [][NextGallery]_vars

(***************************************************************************)
(* The cards operated one by one, and the Instant Load button the          *)
(* Dashboard still shows on a stopped partial run.                         *)
(***************************************************************************)
NextCards ==
  \/ \E id \in Cards : Visualize(id)
  \/ \E id \in Cards : handleToggleFavorite(id)
  \/ \E id \in Cards : openModal(id)
  \/ closeModal
  \/ handleGenerateHighRes
  \/ \E req \in BagToSet(images) : \E v \in Images \cup {NoImage} : ResolveImage(req, v)
  \/ ModalClosed /\ handleInstantLoad
  \/ \E k \in 1..MaxToasts : DismissToast(k)

SpecCards == InitGallery /\ [][NextCards]_vars

(***************************************************************************)
(* The view controls: the favorites filter of the Dashboard and the pager, *)
(* on a stopped run of one full page and MaxMarks records more.  The user  *)
(* marks the cards of the first page in their order, and marks and unmarks *)
(* the cards of the second page freely.                                    *)
(***************************************************************************)
\* the favorites toggle: the filter flips, and the effect on showFavorites
\* of the render that follows resets the page
onToggleShowFavorites ==
  /\ ModalClosed
  /\ stats.totalGenerated > 0
  /\ LET g1 == autoEffect([Gallery EXCEPT !.showFavorites = ~@],
                          isAutoVisuals /\ hasKey, NoTime)
     IN Rendered([g1 EXCEPT !.currentPage = 1], isAutoVisuals, NoTime)

\* the pager is rendered when the view has more than one page
PagerShown == totalPages(filteredScenes(scenes, showFavorites)) > 1

previousPage ==
  /\ ModalClosed
  /\ PagerShown
  /\ currentPage # 1
  /\ Rendered([Gallery EXCEPT !.currentPage = Max(1, @ - 1)], isAutoVisuals, NoTime)

nextPage ==
  /\ ModalClosed
  /\ PagerShown
  /\ currentPage # totalPages(filteredScenes(scenes, showFavorites))
  /\ Rendered([Gallery EXCEPT
                 !.currentPage =
                   Min(totalPages(filteredScenes(scenes, showFavorites)), @ + 1)],
              isAutoVisuals, NoTime)

PageRecords == ITEMS_PER_PAGE + MaxMarks

InitPages == StoppedRun(PageRecords)

\* the cards of the second page
PageCards == (ITEMS_PER_PAGE + 1)..PageRecords

\* the user marks the next unmarked card of the first page
MarkNext ==
  \E id \in 1..ITEMS_PER_PAGE :
    /\ \A i \in 1..(id - 1) : isFavorite(scenes[i])
    /\ ~isFavorite(scenes[id])
    /\ handleToggleFavorite(id)

NextPages ==
  \/ MarkNext
  \/ \E id \in PageCards : handleToggleFavorite(id)
  \/ onToggleShowFavorites
  \/ previousPage
  \/ nextPage

SpecPages == InitPages /\ [][NextPages]_vars

(***************************************************************************)
(* The content sources, call by call.  A call of generateSceneBatch is     *)
(* followed from the text of the response of the remote service to what    *)
(* the function returns or throws; that text is empty, is not JSON, is     *)
(* JSON other than an array, or is an array of at most MaxItems items,     *)
(* each a complete scene object, an object without the required fields, or *)
(* null.  A call of generateCuratedBatch is followed through its loop,     *)
(* Math.random picking a location of the list and one of the first         *)
(* MaxWords moods, actions and styles.                                     *)
(***************************************************************************)
appVars ==
  <<scenes, stats, stopRef, timerRef, toasts, pending, hasKey, irregular,
    keyPrompt, galleryVars>>

StartIds == {1, BATCH_SIZE + 1}

Items == {"scene", "partial", "null"}

\* the own properties { ...item } copies
itemFields(item) ==
  CASE item = "scene"   -> [description |-> "remote", thumbnailUrl |-> NoUrl]
    [] item = "partial" -> [category |-> "Neon"]
    [] OTHER            -> <<>>

Arrays == UNION {[1..n -> Items] : n \in 0..MaxItems}

\* response.text
Responses ==
  {[kind |-> "none"], [kind |-> "text"], [kind |-> "value"]}
    \cup {[kind |-> "array", items |-> a] : a \in Arrays}

\* generateSceneBatch from the text of the response on
generateSceneBatchOf(startId, rawText) ==
  CASE rawText.kind = "none"  -> [outcome |-> "returned", scenes |-> <<>>]
    [] rawText.kind = "text"  -> [outcome |-> "threw", scenes |-> <<>>]
    [] rawText.kind = "value" -> [outcome |-> "threw", scenes |-> <<>>]
    [] OTHER ->
         [outcome |-> "returned",
          scenes  |-> [index \in 1..Len(rawText.items) |->
                         Spread(itemFields(rawText.items[index]),
                                [id |-> startId + (index - 1)])]]

PROMPT_COMPONENTS ==
  [moods |->
     <<"peaceful", "dreamlike", "heroic", "enigmatic", "surreal", "mysterious",
       "tense", "melancholic", "awe-inspiring", "epic", "electric", "hazy">>,
   locations |->
     <<"floating sky temple", "rainy city street", "haunted library",
       "crystal desert", "volcanic cliffs", "futuristic lab",
       "abandoned starship corridor", "neon-lit alley", "underwater reef",
       "desert battlefield", "orbital station window", "ancient ruins",
       "misty forest", "glowing cave", "stormy ocean deck", "dense jungle",
       "cosmic nebula", "snowy mountain pass", "holographic market",
       "bioluminescent bay">>,
   actions |->
     <<"shielding from bright energy", "diving deeper into darkness",
       "touching ancient symbols", "navigating collapsing terrain",
       "climbing a massive structure", "observing distant lights",
       "holding a futuristic device", "running from unseen danger",
       "opening a mysterious door", "stepping through a portal",
       "approaching a towering creature", "floating in zero gravity",
       "reaching toward a glowing object", "emerging from thick fog",
       "exploring an unknown world">>,
   styles |->
     <<"Van Gogh x Cyberpunk", "Klimt x Sci-Fi", "Rembrandt x Noir",
       "Synthwave x Ukiyo-e", "Bauhaus x Industrial", "Gothic x Neon",
       "Abstract Expressionism x Space", "Art Deco x Future">>]

LOCATION_CATEGORY_MAP ==
  ("floating sky temple" :> "Fantasy") @@ ("rainy city street" :> "Urban Life")
    @@ ("haunted library" :> "Horror") @@ ("crystal desert" :> "Surreal")
    @@ ("volcanic cliffs" :> "Adventure") @@ ("futuristic lab" :> "Sci-Fi")
    @@ ("abandoned starship corridor" :> "Sci-Fi") @@ ("neon-lit alley" :> "Neon")
    @@ ("underwater reef" :> "Underwater") @@ ("desert battlefield" :> "Military")
    @@ ("orbital station window" :> "Space") @@ ("ancient ruins" :> "Historical")
    @@ ("misty forest" :> "Nature") @@ ("glowing cave" :> "Nature")
    @@ ("stormy ocean deck" :> "Adventure") @@ ("dense jungle" :> "Nature")
    @@ ("cosmic nebula" :> "Space") @@ ("snowy mountain pass" :> "Nature")
    @@ ("holographic market" :> "Cyberpunk") @@ ("bioluminescent bay" :> "Neon")

\* list[Math.floor(Math.random() * list.length)], among the first n
Pick(list, n) == {list[k] : k \in 1..Min(n, Len(list))}

\* mutant of categoryOf: the location is taken for the category
categoryIsLocation(location) == location

\* LOCATION_CATEGORY_MAP[location] || 'General'
categoryOf(location) ==
  IF location \in DOMAIN LOCATION_CATEGORY_MAP
  THEN LOCATION_CATEGORY_MAP[location]
  ELSE "General"

\* one pass of the loop of generateCuratedBatch
push(call, mood, location, action, style) ==
  LET seed == call.startId + call.i
  IN [call EXCEPT
        !.scenes = Append(@,
          [id           |-> call.startId + call.i,
           description  |-> <<"POV in a ", mood, " scene set in ", location, ", ",
                              action, ". Style: ", style, ".">>,
           category     |-> categoryOf(location),
           thumbnailUrl |-> placeholderUrl(seed)]),
        !.i = @ + 1]

SceneCalls ==
  {[fn |-> "generateSceneBatch", startId |-> a, count |-> BATCH_SIZE,
    rawText |-> r, outcome |-> "pending", scenes |-> <<>>] :
     a \in StartIds, r \in Responses}

CuratedCalls ==
  {[fn |-> "generateCuratedBatch", startId |-> a, count |-> c, i |-> 0,
    outcome |-> "running", scenes |-> <<>>] :
     a \in StartIds, c \in 0..MaxCount}

\* a call about to run, made with a credential selected
InitBackend ==
  /\ backend \in SceneCalls \cup CuratedCalls
  /\ Idle
  /\ hasKey

\* the remote service has answered: generateSceneBatch runs to its end
parseResponse ==
  /\ backend.fn = "generateSceneBatch"
  /\ backend.outcome = "pending"
  /\ backend' = Spread(backend, generateSceneBatchOf(backend.startId, backend.rawText))
  /\ UNCHANGED appVars

\* the loop of generateCuratedBatch: one more record, or the return
iterate ==
  /\ backend.fn = "generateCuratedBatch"
  /\ backend.outcome = "running"
  /\ IF backend.i < backend.count
     THEN \E mood \in Pick(PROMPT_COMPONENTS.moods, MaxWords) :
          \E location \in Pick(PROMPT_COMPONENTS.locations,
                                Len(PROMPT_COMPONENTS.locations)) :
          \E action \in Pick(PROMPT_COMPONENTS.actions, MaxWords) :
          \E style \in Pick(PROMPT_COMPONENTS.styles, MaxWords) :
            backend' = push(backend, mood, location, action, style)
     ELSE backend' = [backend EXCEPT !.outcome = "returned"]
  /\ UNCHANGED appVars

NextBackend ==
  \/ parseResponse
  \/ iterate

SpecBackend == InitBackend /\ [][NextBackend]_vars

(***************************************************************************)
(* Vocabulary of the claims.                                               *)
(***************************************************************************)
\* the notices of the given text now on screen
Notices(ts, message) == Len(SelectSeq(ts, LAMBDA t : t.message = message))

\* a live request is in flight
LivePending(pend) == \E j \in DOMAIN pend : pend[j].isMounted

\* this step issues a batch request: the next state holds a live request,
\* and either more requests are in flight than before or the live request is
\* not one the current state holds (a request is issued live, and every
\* request issued earlier has been unmounted by then)
Issued ==
  \E j \in DOMAIN pending' :
    /\ pending'[j].isMounted
    /\ \/ Len(pending') > Len(pending)
       \/ \A k \in DOMAIN pending : pending[k] # pending'[j]

\* the request at position i resolves successfully with at least one record
\* while the cancellation signal raised by stop() is still up
ResolvesAfterStop(i, n) ==
  /\ stopRef
  /\ ~stats.isGenerating
  /\ n >= 1
  /\ ResolveBatch(i, n)

(***************************************************************************)
(* C1 as stated: when stop() is called while a batch request is pending    *)
(* and that request then succeeds, its records are appended to the         *)
(* Collection and counted in totalGenerated, and no further batch is       *)
(* requested.                                                              *)
(***************************************************************************)
C1_StoppedBatchStillAppended ==
  [][\A i \in 1..MaxPending : \A n \in 1..(BATCH_SIZE + 1) :
       ResolvesAfterStop(i, n) =>
         /\ Len(scenes') = Len(scenes) + n
         /\ stats'.totalGenerated = stats.totalGenerated + n
         /\ ~Issued]_vars

(***************************************************************************)
(* C1 as amended: when stop() is called while a batch request is pending   *)
(* and that request then succeeds, its records are dropped (the Collection *)
(* and totalGenerated stay as they were), and no further batch is          *)
(* requested.                                                              *)
(***************************************************************************)
C1_StoppedBatchDropped ==
  [][\A i \in 1..MaxPending : \A n \in 1..(BATCH_SIZE + 1) :
       ResolvesAfterStop(i, n) =>
         /\ scenes' = scenes
         /\ stats'.totalGenerated = stats.totalGenerated
         /\ ~Issued
         /\ ~LivePending(pending')]_vars

\* stop() came while the second batch was pending, that request has
\* resolved since, and the notice of the stop is still on screen
C1_Witness ==
  /\ stopRef
  /\ ~stats.isGenerating
  /\ pending = <<>>
  /\ Notices(toasts, MsgStopped) = 1
  /\ Len(scenes) = BATCH_SIZE
  /\ stats.batchesCompleted = 1

(***************************************************************************)
(* C2: a batch request that resolves while the cancellation signal is up   *)
(* is discarded: the Collection, totalGenerated and batchesCompleted are   *)
(* after the resolution what they were before it, and, until the user      *)
(* starts again or loads the curated gallery, what they were when stop()   *)
(* raised the signal.                                                      *)
(***************************************************************************)
C2_ResultDiscarded ==
  [][(stopRef /\ ~handleStart /\ ~handleInstantLoad) =>
       /\ scenes' = scenes
       /\ stats'.totalGenerated = stats.totalGenerated
       /\ stats'.batchesCompleted = stats.batchesCompleted]_vars

\* stop() came while the first batch was pending and that request has
\* resolved since: nothing was appended or counted
C2_Witness ==
  /\ stopRef
  /\ ~stats.isGenerating
  /\ pending = <<>>
  /\ Notices(toasts, MsgStopped) = 1
  /\ scenes = <<>>
  /\ stats.totalGenerated = 0
  /\ stats.batchesCompleted = 0
  /\ stats.startTime # NoTime

(***************************************************************************)
(* C3: stop() raises the cancellation signal, and while the signal is up   *)
(* no step issues a batch request and none lowers the signal, except       *)
(* start().                                                                *)
(***************************************************************************)
C3_NoRequestAfterStop ==
  [][/\ handleStop => stopRef' /\ ~stats'.isGenerating /\ ~Issued
     /\ stopRef => (handleStart \/ (stopRef' /\ ~Issued))]_vars

\* stopped with the request of the third batch still in flight
C3_Witness ==
  /\ stopRef
  /\ ~stats.isGenerating
  /\ Notices(toasts, MsgStopped) = 1
  /\ Len(pending) = 1
  /\ pending[1].startId = 2 * BATCH_SIZE + 1

(***************************************************************************)
(* C4 as stated: in every reachable state the Collection holds at most     *)
(* TOTAL_GOAL records, whatever lists the remote service returns.          *)
(***************************************************************************)
C4_NeverPastGoal == Len(scenes) <= TOTAL_GOAL

(***************************************************************************)
(* C5: in every reachable state totalGenerated equals the length of the    *)
(* Collection.                                                             *)
(***************************************************************************)
C5_TotalIsLength == stats.totalGenerated = Len(scenes)

\* a run stopped during its second batch and resumed, whose second batch
\* then came back one record short
C5_Witness ==
  /\ Len(scenes) = 2 * BATCH_SIZE - 1
  /\ stats.totalGenerated = 2 * BATCH_SIZE - 1
  /\ stats.batchesCompleted = 2
  /\ Len(pending) = 2
  /\ ~pending[1].isMounted
  /\ pending[1].startId = BATCH_SIZE + 1
  /\ pending[2].isMounted

(***************************************************************************)
(* C6: the ids of the Collection are 1..T in insertion order, T being its  *)
(* length: no gap, no duplicate, no renumbering.                           *)
(***************************************************************************)
C6_IdsContiguous == \A i \in 1..Len(scenes) : scenes[i].id = i

\* remote records after a short first batch, a stop and a resume: the
\* request of the stopped run is still in flight beside the live one
C6_Witness ==
  /\ Len(scenes) = 3 * BATCH_SIZE - 1
  /\ scenes[Len(scenes)].thumbnailUrl = NoUrl
  /\ irregular = 1
  /\ Len(pending) = 2
  /\ ~pending[1].isMounted
  /\ pending[1].startId = BATCH_SIZE
  /\ pending[2].isMounted
  /\ pending[2].startId = 3 * BATCH_SIZE

(***************************************************************************)
(* C7: when a batch request throws while the loop is active, the           *)
(* cancellation signal is raised, isGenerating becomes false, exactly one  *)
(* generation-failure notice is added (and no other step adds one), the    *)
(* Collection and the counters are left as they were, and no batch request *)
(* is issued until start() is called again.                                *)
(***************************************************************************)
FailsWhileActive(i) ==
  /\ i \in DOMAIN pending
  /\ pending[i].isMounted
  /\ stats.isGenerating
  /\ FailBatch(i)

C7_FailureHalts ==
  [][/\ \A i \in 1..MaxPending :
          FailsWhileActive(i) =>
            /\ stopRef'
            /\ ~stats'.isGenerating
            /\ Notices(toasts', MsgFailed) = Notices(toasts, MsgFailed) + 1
            /\ scenes' = scenes
            /\ stats'.totalGenerated = stats.totalGenerated
            /\ stats'.batchesCompleted = stats.batchesCompleted
            /\ ~Issued
            /\ ~LivePending(pending')
     /\ Notices(toasts', MsgFailed) > Notices(toasts, MsgFailed) =>
          \E i \in 1..MaxPending : FailsWhileActive(i)
     /\ (stopRef /\ ~stats.isGenerating /\ ~handleStart) =>
          (~Issued /\ ~stats'.isGenerating)]_vars

\* the third batch threw: the 100 records of batches 1-2 remain
C7_Witness ==
  /\ stopRef
  /\ ~stats.isGenerating
  /\ Notices(toasts, MsgFailed) = 1
  /\ Len(scenes) = 2 * BATCH_SIZE
  /\ stats.batchesCompleted = 2
  /\ pending = <<>>

(***************************************************************************)
(* C8: as long as every response has the requested length, the Collection  *)
(* holds BATCH_SIZE records per completed batch and at most 20 batches     *)
(* complete; the step of an active loop that reaches TOTAL_GOAL turns      *)
(* isGenerating off and adds exactly one completion notice, no other step  *)
(* adds one, and no batch is requested once the goal is reached.           *)
(***************************************************************************)
ReachesGoal ==
  /\ stats.isGenerating
  /\ Len(scenes) < TOTAL_GOAL
  /\ Len(scenes') >= TOTAL_GOAL

C8_TwentyBatches ==
  /\ [](irregular = 0 =>
          /\ Len(scenes) = BATCH_SIZE * stats.batchesCompleted
          /\ stats.batchesCompleted <= 20
          /\ Len(scenes) = TOTAL_GOAL =>
               /\ stats.batchesCompleted = 20
               /\ stats.totalGenerated = TOTAL_GOAL
               /\ ~stats.isGenerating
               /\ ~LivePending(pending))
  /\ [][/\ ReachesGoal =>
             /\ ~stats'.isGenerating
             /\ Notices(toasts', MsgGoal) = Notices(toasts, MsgGoal) + 1
             /\ ~Issued
        /\ Notices(toasts', MsgGoal) > Notices(toasts, MsgGoal) => ReachesGoal
        /\ Len(scenes) >= TOTAL_GOAL => ~Issued]_vars

\* the remote run has completed: 1000 remote records in 20 batches
C8_Witness ==
  /\ irregular = 0
  /\ Len(scenes) = TOTAL_GOAL
  /\ scenes[TOTAL_GOAL].thumbnailUrl = NoUrl
  /\ stats.batchesCompleted = 20
  /\ stats.totalGenerated = TOTAL_GOAL
  /\ ~stats.isGenerating
  /\ ~stopRef
  /\ pending = <<>>
  /\ Notices(toasts, MsgGoal) = 1

(***************************************************************************)
(* C9 as stated: at most one batch request is in flight at any time.       *)
(***************************************************************************)
C9_OneInFlight == Len(pending) <= 1

(***************************************************************************)
(* C10: start() with a credential flags the loop active and lowers the     *)
(* cancellation signal; on an empty Collection it zeroes totalGenerated,   *)
(* batchesCompleted and elapsedTime and records a start time; on a         *)
(* non-empty Collection it leaves totalGenerated, batchesCompleted,        *)
(* startTime and elapsedTime as they were.  The Collection is untouched.   *)
(***************************************************************************)
C10_StartResetsOrResumes ==
  [][(hasKey /\ handleStart) =>
       /\ stats'.isGenerating
       /\ ~stopRef'
       /\ scenes' = scenes
       /\ IF scenes = <<>>
          THEN /\ stats'.totalGenerated = 0
               /\ stats'.batchesCompleted = 0
               /\ stats'.elapsedTime = 0
               /\ stats'.startTime \in Times
          ELSE /\ stats'.totalGenerated = stats.totalGenerated
               /\ stats'.batchesCompleted = stats.batchesCompleted
               /\ stats'.startTime = stats.startTime
               /\ stats'.elapsedTime = stats.elapsedTime]_vars

\* resumed on a Collection of one batch after a second of generation; the
\* request of the stopped run is still in flight
C10_Witness ==
  /\ stats.isGenerating
  /\ ~stopRef
  /\ Notices(toasts, MsgStarted) = 1
  /\ Len(scenes) = BATCH_SIZE
  /\ stats.totalGenerated = BATCH_SIZE
  /\ stats.batchesCompleted = 1
  /\ stats.elapsedTime = 1
  /\ Len(pending) = 2
  /\ ~pending[1].isMounted
  /\ pending[1].startId = BATCH_SIZE + 1
  /\ pending[2].isMounted

C12_NoStartWithoutKey ==
  [][(~hasKey /\ handleStart) =>
       /\ hasKey' \/ keyPrompt'
       /\ stats' = stats
       /\ scenes' = scenes
       /\ stopRef' = stopRef
       /\ timerRef' = timerRef
       /\ toasts' = toasts
       /\ pending' = pending
       /\ ~Issued]_vars

\* start was pressed without a credential and the host's dialog was left
\* without selecting one: nothing has started
C12_Witness ==
  /\ ~hasKey
  /\ keyPrompt
  /\ scenes = <<>>
  /\ ~stats.isGenerating
  /\ stats.startTime = NoTime
  /\ ~stopRef
  /\ pending = <<>>
  /\ toasts = <<>>

(***************************************************************************)
(* C16 as stated: the Collection is append-only.  No step removes a record *)
(* or puts a different record in its place: every record keeps its         *)
(* position, its id and its content.                                       *)
(***************************************************************************)
C16_AppendOnly ==
  [][/\ Len(scenes') >= Len(scenes)
     /\ \A i \in 1..Len(scenes) :
          /\ scenes'[i].id = scenes[i].id
          /\ scenes'[i].description = scenes[i].description]_vars

(***************************************************************************)
(* C17: stop() raises the cancellation signal, clears the running flag and *)
(* adds one notice; the Collection, totalGenerated, batchesCompleted,      *)
(* startTime and elapsedTime are left as they were, and no request in      *)
(* flight is dropped from flight by it.                                    *)
(***************************************************************************)
C17_StopPreservesProgress ==
  [][handleStop =>
       /\ stopRef'
       /\ ~stats'.isGenerating
       /\ scenes' = scenes
       /\ stats'.totalGenerated = stats.totalGenerated
       /\ stats'.batchesCompleted = stats.batchesCompleted
       /\ stats'.startTime = stats.startTime
       /\ stats'.elapsedTime = stats.elapsedTime
       /\ Len(toasts') = Len(toasts) + 1
       /\ Notices(toasts', MsgStopped) = Notices(toasts, MsgStopped) + 1
       /\ Len(pending') = Len(pending)]_vars

\* stopped after a second of generation, during the second batch
C17_Witness ==
  /\ stopRef
  /\ ~stats.isGenerating
  /\ Notices(toasts, MsgStopped) = 1
  /\ Len(scenes) = BATCH_SIZE
  /\ stats.totalGenerated = BATCH_SIZE
  /\ stats.batchesCompleted = 1
  /\ stats.startTime \in Times
  /\ stats.elapsedTime = 1
  /\ Len(pending) = 1
  /\ ~pending[1].isMounted

(***************************************************************************)
(* C19: the one-second interval is installed exactly while isGenerating is *)
(* true; a tick adds one to elapsedTime and happens only then; while the   *)
(* loop is inactive (goal reached, stop(), failure) elapsedTime stays as   *)
(* it is until start() or an instant load replaces the statistics, and no  *)
(* other step ever changes it.                                             *)
(***************************************************************************)
C19_ClockRunsOnlyWhileActive ==
  /\ [](timerRef <=> stats.isGenerating)
  /\ [][/\ Tick => /\ stats.isGenerating
                   /\ stats'.elapsedTime = stats.elapsedTime + 1
        /\ stats'.elapsedTime # stats.elapsedTime =>
             (Tick \/ handleStart \/ handleInstantLoad)
        /\ (~stats.isGenerating /\ ~handleStart /\ ~handleInstantLoad) =>
             stats'.elapsedTime = stats.elapsedTime]_vars

\* a run that ticked once and then halted on a failure: the clock stands
C19_Witness ==
  /\ ~stats.isGenerating
  /\ ~timerRef
  /\ stats.elapsedTime = 1
  /\ Notices(toasts, MsgFailed) = 1
  /\ Len(scenes) = BATCH_SIZE

(***************************************************************************)
(* Vocabulary of the record-level claims.                                  *)
(***************************************************************************)
\* a real image: neither absent nor a placeholder
IsReal(u) == u # NoUrl /\ ~IsPlaceholder(u)

\* a request of the given kind for the given record is in flight
InFlight(kind, id) ==
  \E req \in BagToSet(images) : req.kind = kind /\ req.id = id

\* the thumbnail requests in flight that runs of the bulk loader issued
LoaderRequests ==
  [req \in {x \in BagToSet(images) : x.kind = "thumbnail" /\ x.loader # 0} |->
     CopiesIn(req, images)]

(***************************************************************************)
(* C13 as stated: for each record and each kind (thumbnail, high-res) at   *)
(* most one image request is in flight at any time, whether the requests   *)
(* come from a card, from the bulk loader or from the auto-visuals mode.   *)
(***************************************************************************)
C13_OneRequestPerRecordAndKind ==
  \A r1, r2 \in BagToSet(images) :
    (r1.kind = r2.kind /\ r1.id = r2.id) =>
      (r1 = r2 /\ CopiesIn(r1, images) = 1)

(***************************************************************************)
(* C14 as stated: the pending flag of a record is set only while a request *)
(* of that kind for that record is in flight: once the request has         *)
(* resolved the flag is cleared in the Collection and stays cleared.       *)
(***************************************************************************)
C14_PendingOnlyWhileInFlight ==
  \A i \in DOMAIN scenes :
    /\ Flag(scenes[i], "isGeneratingThumbnail") => InFlight("thumbnail", scenes[i].id)
    /\ Flag(scenes[i], "isGeneratingHighRes") => InFlight("highRes", scenes[i].id)

(***************************************************************************)
(* C15 as stated: once a record's thumbnailUrl or highResUrl is a real     *)
(* image, no step clears it or puts a placeholder in its place.            *)
(***************************************************************************)
C15_RealUrlKept ==
  [][\A i \in DOMAIN scenes : \A f \in {"thumbnailUrl", "highResUrl"} :
       IsReal(Url(scenes[i], f)) =>
         /\ i \in DOMAIN scenes'
         /\ scenes'[i].id = scenes[i].id
         /\ IsReal(Url(scenes'[i], f))]_vars

(***************************************************************************)
(* C18 as stated: at most CHUNK_SIZE thumbnail requests of the bulk loader *)
(* are in flight at any time, also when the loader is started again while  *)
(* a chunk is pending.                                                     *)
(***************************************************************************)
C18_AtMostOneChunkInFlight == BagCardinality(LoaderRequests) <= CHUNK_SIZE

(***************************************************************************)
(* C20: toggling the favorite mark of record k flips the isFavorite field  *)
(* of record k and nothing else: the Collection keeps its length and its   *)
(* order, record k keeps every other field, and every other record is      *)
(* what it was.                                                            *)
(***************************************************************************)
C20_ToggleFlipsOnlyThatRecord ==
  [][\A id \in Cards :
       handleToggleFavorite(id) =>
         /\ Len(scenes') = Len(scenes)
         /\ \A i \in DOMAIN scenes :
              IF scenes[i].id = id
              THEN /\ Flag(scenes'[i], "isFavorite") = ~Flag(scenes[i], "isFavorite")
                   /\ DOMAIN scenes'[i] = (DOMAIN scenes[i]) \cup {"isFavorite"}
                   /\ \A f \in (DOMAIN scenes[i]) \ {"isFavorite"} :
                        scenes'[i][f] = scenes[i][f]
              ELSE scenes'[i] = scenes[i]]_vars

\* the last card is marked a favorite while its thumbnail and the first
\* chunk of the bulk loader are in flight; no other record carries the field
C20_Witness ==
  /\ Flag(scenes[GallerySize], "isFavorite")
  /\ Flag(scenes[GallerySize], "isGeneratingThumbnail")
  /\ \A i \in 1..(GallerySize - 1) :
       /\ "isFavorite" \notin DOMAIN scenes[i]
       /\ Flag(scenes[i], "isGeneratingThumbnail")
  /\ BagCardinality(images) = GallerySize

(***************************************************************************)
(* C26: a batch response that parses to zero records, arriving at the live *)
(* request of an active run, is not treated as a failure: the cancellation *)
(* signal stays down, no failure notice is added, isGenerating stays true, *)
(* the Collection and totalGenerated stay as they were, and the run goes   *)
(* on with a new request.                                                  *)
(***************************************************************************)
ResolvesEmpty(i) ==
  /\ i \in DOMAIN pending
  /\ pending[i].isMounted
  /\ ~stopRef
  /\ stats.isGenerating
  /\ ResolveBatch(i, 0)

C26_EmptyBatchIsNoFailure ==
  [][\A i \in 1..MaxPending :
       ResolvesEmpty(i) =>
         /\ ~stopRef'
         /\ Notices(toasts', MsgFailed) = Notices(toasts, MsgFailed)
         /\ stats'.isGenerating
         /\ scenes' = scenes
         /\ stats'.totalGenerated = stats.totalGenerated
         /\ Issued]_vars

\* the first response of a run held no record: the run is still active at
\* zero records with its second request in flight
C26_Witness ==
  /\ scenes = <<>>
  /\ stats.totalGenerated = 0
  /\ stats.batchesCompleted = 1
  /\ stats.isGenerating
  /\ ~stopRef
  /\ irregular = 1
  /\ Notices(toasts, MsgFailed) = 0
  /\ Len(pending) = 1
  /\ pending[1].isMounted
  /\ pending[1].batchesCompleted = 1

(***************************************************************************)
(* C28: a batch request issued before a stop() that settles after a later  *)
(* start() has no effect: whether it succeeds or throws, the Collection,   *)
(* the statistics, the cancellation signal, the timer and the notices are  *)
(* left as they were, the live request stays in flight, and the ids of the *)
(* Collection stay 1..T without duplicates.                                *)
(***************************************************************************)
StaleSettles(i) ==
  /\ i \in DOMAIN pending
  /\ ~pending[i].isMounted
  /\ stats.isGenerating
  /\ ~stopRef
  /\ \/ FailBatch(i)
     \/ \E n \in 0..(BATCH_SIZE + 1) : ResolveBatch(i, n)

C28_StaleRequestHasNoEffect ==
  /\ [][\A i \in 1..MaxPending :
          StaleSettles(i) =>
            /\ scenes' = scenes
            /\ stats' = stats
            /\ stopRef' = stopRef
            /\ timerRef' = timerRef
            /\ toasts' = toasts
            /\ pending' = RemoveAt(pending, i)
            /\ LivePending(pending')]_vars
  /\ [](\A i \in 1..Len(scenes) : scenes[i].id = i)

\* a run stopped during its second batch and resumed: the request of the
\* stopped run has come back one record short and was dropped
C28_Witness ==
  /\ stats.isGenerating
  /\ ~stopRef
  /\ Notices(toasts, MsgStarted) = 1
  /\ Len(scenes) = BATCH_SIZE
  /\ stats.totalGenerated = BATCH_SIZE
  /\ stats.batchesCompleted = 1
  /\ irregular = 1
  /\ Len(pending) = 1
  /\ pending[1].isMounted
  /\ pending[1].startId = BATCH_SIZE + 1

(***************************************************************************)
(* C27: in the undisturbed run (start() with a credential, no stop(), no   *)
(* failing request, every request answered, every response with at least   *)
(* one record) the loop, once active, reaches a Collection of at least     *)
(* TOTAL_GOAL records with isGenerating false, and from then on            *)
(* isGenerating stays false.                                               *)
(***************************************************************************)
GoalReached == Len(scenes) >= TOTAL_GOAL /\ ~stats.isGenerating

C29_HighResKeepsOtherFields ==
  [][\A req \in BagToSet(images) : \A v \in Images :
       (req.kind = "highRes" /\ ResolveImage(req, v)) =>
         \A i \in DOMAIN scenes :
           scenes[i].id = req.id =>
             /\ Flag(scenes'[i], "isFavorite") = Flag(scenes[i], "isFavorite")
             /\ Url(scenes'[i], "thumbnailUrl") = Url(scenes[i], "thumbnailUrl")
             /\ Flag(scenes'[i], "isGeneratingThumbnail")
                  = Flag(scenes[i], "isGeneratingThumbnail")]_vars

(***************************************************************************)
(* C21: the favorites-only view holds exactly the records of the           *)
(* Collection whose isFavorite is true, each once and in the order of the  *)
(* Collection, so its length is the number of favorites; the unfiltered    *)
(* view is the Collection itself.                                          *)
(***************************************************************************)
C21_FilterExact ==
  LET favorites == filteredScenes(scenes, TRUE)
  IN /\ filteredScenes(scenes, FALSE) = scenes
     /\ Len(favorites) = Cardinality({i \in DOMAIN scenes : isFavorite(scenes[i])})
     /\ \A k \in DOMAIN favorites :
          /\ isFavorite(favorites[k])
          /\ scenes[favorites[k].id] = favorites[k]
          /\ k > 1 => favorites[k - 1].id < favorites[k].id
     /\ \A i \in DOMAIN scenes :
          isFavorite(scenes[i]) => \E k \in DOMAIN favorites : favorites[k] = scenes[i]

\* 3 of the 12 records are favorites and the favorites view is on: it shows
\* exactly those three, in their order, on page 1 of 1
C21_Witness ==
  /\ showFavorites
  /\ Len(scenes) = 12
  /\ Len(filteredScenes(scenes, showFavorites)) = 3
  /\ currentPage = 1
  /\ totalPages(filteredScenes(scenes, showFavorites)) = 1
  /\ Ids(displayedScenes(Gallery)) = <<1, 2, 11>>

(***************************************************************************)
(* C22: for a filtered view of length L the page count is ceil(L / 10);    *)
(* page p, 1 <= p <= page count, shows the records (p-1)*10+1 ..           *)
(* min(p*10, L) of the view; the last page holds L mod 10 records, or 10   *)
(* when L is a positive multiple of 10.                                    *)
(***************************************************************************)
C22_Pagination ==
  \A fav \in BOOLEAN :
    LET filtered == filteredScenes(scenes, fav)
        L == Len(filtered)
        n == totalPages(filtered)
    IN /\ n * ITEMS_PER_PAGE >= L
       /\ (n - 1) * ITEMS_PER_PAGE < L
       /\ \A p \in 1..n :
            /\ Len(Page(filtered, p))
                 = Min(p * ITEMS_PER_PAGE, L) - (p - 1) * ITEMS_PER_PAGE
            /\ \A k \in DOMAIN Page(filtered, p) :
                 Page(filtered, p)[k] = filtered[(p - 1) * ITEMS_PER_PAGE + k]
       /\ n >= 1 =>
            Len(Page(filtered, n))
              = IF L % ITEMS_PER_PAGE = 0 THEN ITEMS_PER_PAGE ELSE L % ITEMS_PER_PAGE

\* the favorites view holds 11 records and its second page is on display:
\* it shows the eleventh favorite alone
C22_Witness ==
  /\ showFavorites
  /\ Len(filteredScenes(scenes, showFavorites)) = ITEMS_PER_PAGE + 1
  /\ totalPages(filteredScenes(scenes, showFavorites)) = 2
  /\ currentPage = 2
  /\ Ids(displayedScenes(Gallery)) = <<12>>

(***************************************************************************)
(* C30 as stated: in every reachable state 1 <= currentPage <= max(1, page *)
(* count of the current filtered view), so the page on display is not      *)
(* empty when the filtered view is not empty.                              *)
(***************************************************************************)
C30_PageInRange ==
  /\ 1 <= currentPage
  /\ currentPage <= Max(1, totalPages(filteredScenes(scenes, showFavorites)))
  /\ filteredScenes(scenes, showFavorites) # <<>> => displayedScenes(Gallery) # <<>>

(***************************************************************************)
(* C23 as stated: for any response of the remote service that is empty or  *)
(* malformed (anything but a non-empty array of complete scene objects)    *)
(* generateSceneBatch returns, without throwing, zero records.             *)
(***************************************************************************)
WellFormed(rawText) ==
  /\ rawText.kind = "array"
  /\ rawText.items # <<>>
  /\ \A k \in DOMAIN rawText.items : rawText.items[k] = "scene"

C23_MalformedYieldsNothing ==
  (/\ backend.fn = "generateSceneBatch"
   /\ backend.outcome # "pending"
   /\ ~WellFormed(backend.rawText))
    => (backend.outcome = "returned" /\ backend.scenes = <<>>)

(***************************************************************************)
(* C24: generateCuratedBatch(startId, count) never throws and returns      *)
(* exactly count records, with the ids startId, startId+1, ... in that     *)
(* order, each with a non-empty description, a category that is a value of *)
(* the location->category table or "General", and the placeholder image    *)
(* URL of its id.                                                          *)
(***************************************************************************)
Categories ==
  {LOCATION_CATEGORY_MAP[l] : l \in DOMAIN LOCATION_CATEGORY_MAP} \cup {"General"}

C24_CuratedBatchExact ==
  backend.fn = "generateCuratedBatch" =>
    /\ backend.outcome \in {"running", "returned"}
    /\ Len(backend.scenes) <= backend.count
    /\ backend.outcome = "returned" => Len(backend.scenes) = backend.count
    /\ \A k \in DOMAIN backend.scenes :
         /\ backend.scenes[k].id = backend.startId + (k - 1)
         /\ backend.scenes[k].description # <<>>
         /\ \A w \in DOMAIN backend.scenes[k].description :
              backend.scenes[k].description[w] # ""
         /\ backend.scenes[k].category \in Categories
         /\ backend.scenes[k].thumbnailUrl = placeholderUrl(backend.scenes[k].id)

\* generateCuratedBatch(51, 2) has returned the records 51 and 52, the
\* first set in the neon-lit alley, the second in the haunted library
C24_Witness ==
  /\ backend.fn = "generateCuratedBatch"
  /\ backend.outcome = "returned"
  /\ backend.startId = BATCH_SIZE + 1
  /\ backend.count = 2
  /\ Ids(backend.scenes) = <<BATCH_SIZE + 1, BATCH_SIZE + 2>>
  /\ backend.scenes[1].category = "Neon"
  /\ backend.scenes[2].category = "Horror"

(***************************************************************************)
(* C25 as stated: every notice on screen is dismissed 3 seconds after it   *)
(* was added, also while generation is active and the elapsed-time tick    *)
(* keeps rendering the application, so no notice is on screen for longer;  *)
(* and a failing batch request leaves the Collection and the counters as   *)
(* they were.                                                              *)
(***************************************************************************)
C25_NoticesDismissedInTime ==
  /\ [](\A k \in DOMAIN toasts : toasts[k].shownFor <= TOAST_MS)
  /\ [][\A i \in 1..MaxPending :
          FailsWhileActive(i) =>
            /\ scenes' = scenes
            /\ stats'.totalGenerated = stats.totalGenerated
            /\ stats'.batchesCompleted = stats.batchesCompleted]_vars

====
